---- MODULE Spec2Model ----
(***************************************************************************)
(* Model of the LED control panel in src/main.py: the DroidState store,   *)
(* LEDController.apply_state, and the two NiceGUI event handlers          *)
(* on_toggle_change / on_rate_change, together with the gpiozero LED the  *)
(* controller drives (steady level or a background blink thread).         *)
(*                                                                         *)
(* Python floats are modelled as extended rationals: a finite value is an  *)
(* exact fraction n/d in lowest terms, and NaN, +inf and -inf are separate *)
(* values with IEEE comparison rules (every ordered comparison with NaN is *)
(* false).  Rounding of finite results is not modelled.                    *)
(***************************************************************************)
EXTENDS Integers, Sequences, FiniteSets, TLC

VARIABLES
    enabled,        \* state.enabled
    flash_rate_hz,  \* state.flash_rate_hz (a float value)
    led,            \* led_controller.led: pin level and running blink threads
    pc,             \* control thread: "idle", or "blocked" inside a library call
    raised,         \* exception the last call raised to its caller, or "none"
    lastCall,       \* history: the last event delivered to a handler
    applied         \* history: the snapshot of the last apply_state call

vars == <<enabled, flash_rate_hz, led, pc, raised, lastCall, applied>>

---------------------------------------------------------------------------
(* Program constants and bounds *)

\* upper clamp of the rate, in Hz
MaxRateHz == 50

\* the number input moves in steps of 1/StepDen Hz
StepDen == 2

\* how many steps around 0 Hz and around MaxRateHz the finite inputs cover
RawSpan == 3

---------------------------------------------------------------------------
(* Float values *)

Abs(x) == IF x < 0 THEN -x ELSE x

RECURSIVE GCD(_, _)
GCD(a, b) == IF b = 0 THEN a ELSE GCD(b, a % b)

\* the finite float n/d (d # 0), in lowest terms with a positive denominator
Rat(n, d) ==
    LET s == IF d < 0 THEN -1 ELSE 1
        g == GCD(Abs(n), Abs(d))
    IN  [k |-> "fin", n |-> (s * n) \div g, d |-> (s * d) \div g]

NaN == [k |-> "nan", n |-> 0, d |-> 1]
Inf(s) == [k |-> "inf", n |-> s, d |-> 1]
ZeroDiv == [k |-> "zerodiv", n |-> 0, d |-> 1]

Zero == Rat(0, 1)
One == Rat(1, 1)
Two == Rat(2, 1)
MaxRate == Rat(MaxRateHz, 1)

Sign(a) == IF a.n < 0 THEN -1 ELSE IF a.n > 0 THEN 1 ELSE 0

\* Python's a < b on floats
FLess(a, b) ==
    IF a.k = "nan" \/ b.k = "nan" THEN FALSE
    ELSE IF a.k = "inf" THEN a.n = -1 /\ b # a
    ELSE IF b.k = "inf" THEN b.n = 1
    ELSE a.n * b.d < b.n * a.d

\* Python's a <= b on floats
FLessEq(a, b) ==
    IF a.k = "nan" \/ b.k = "nan" THEN FALSE
    ELSE a = b \/ FLess(a, b)

\* Python's a / b on floats; ZeroDiv stands for the ZeroDivisionError raised
FDiv(a, b) ==
    IF b.k = "fin" /\ b.n = 0 THEN ZeroDiv
    ELSE IF a.k = "nan" \/ b.k = "nan" THEN NaN
    ELSE IF a.k = "inf" THEN (IF b.k = "inf" THEN NaN ELSE Inf(a.n * Sign(b)))
    ELSE IF b.k = "inf" THEN Zero
    ELSE Rat(a.n * b.d, a.d * b.n)

---------------------------------------------------------------------------
(* Raw event values (e.value) *)

\* numerators, over StepDen, of the finite numbers the events carry
RawNums ==
    { n \in -RawSpan .. MaxRateHz * StepDen + RawSpan :
        n <= RawSpan \/ n >= MaxRateHz * StepDen - RawSpan }

FloatValues == { Rat(n, StepDen) : n \in RawNums } \cup {NaN, Inf(1), Inf(-1)}

Raw(t, v) == [t |-> t, v |-> v]

\* None; floats; an int beyond the float range; True/False; strings that
\* spell a float, strings that do not, the empty string; an empty list
RawValues ==
    {Raw("none", Zero), Raw("bigint", Zero), Raw("badstr", Zero),
     Raw("emptystr", Zero), Raw("list", Zero),
     Raw("bool", Zero), Raw("bool", One)}
    \cup { Raw("num", v) : v \in FloatValues }
    \cup { Raw("numstr", v) : v \in FloatValues }

\* Python's float(x): the value, or the exception raised
PyFloat(raw) ==
    CASE raw.t \in {"num", "bool", "numstr"} -> [exc |-> "none", val |-> raw.v]
      [] raw.t \in {"badstr", "emptystr"} -> [exc |-> "ValueError", val |-> Zero]
      [] raw.t \in {"none", "list"} -> [exc |-> "TypeError", val |-> Zero]
      [] raw.t = "bigint" -> [exc |-> "OverflowError", val |-> Zero]

\* Python's bool(x)
PyBool(raw) ==
    CASE raw.t \in {"num", "bool"} -> raw.v # Zero
      [] raw.t \in {"numstr", "badstr", "bigint"} -> TRUE
      [] raw.t \in {"none", "emptystr", "list"} -> FALSE

---------------------------------------------------------------------------
(* gpiozero LED *)

\* a blink thread: its timings and where it is in its cycle
Blinker(on_time, off_time) ==
    [on_time |-> on_time, off_time |-> off_time, phase |-> "start"]

\* LED(gpio_pin): level low, no blink thread
NewLED == [value |-> 0, threads |-> <<>>]

\* led.off(): stop the blink thread, drive the pin low
LedOff(l) == [value |-> 0, threads |-> <<>>]

\* faulty variant: the blink is run in the calling thread
BackgroundOff == FALSE

\* blink(..., background=True)
Background == TRUE

\* led.blink(on_time, off_time, ...): stop the blink thread, start a new one
\* (without background the caller would join the endless thread: apply_state)
LedBlink(l, on_time, off_time) ==
    [value |-> l.value, threads |-> <<Blinker(on_time, off_time)>>]

---------------------------------------------------------------------------
(* LEDController *)

\* faulty variant: the guard tests rate < 0, so a rate of 0 reaches the division
apply_state_strict(en, rate, l) ==
    IF ~en \/ FLess(rate, Zero)
    THEN [led |-> LedOff(l), exc |-> "none", pc |-> "idle"]
    ELSE LET period == FDiv(One, rate)
         IN  IF period = ZeroDiv
             THEN [led |-> l, exc |-> "ZeroDivisionError", pc |-> "idle"]
             ELSE [led |-> LedBlink(l, FDiv(period, Two), FDiv(period, Two)),
                   exc |-> "none",
                   pc |-> IF Background THEN "idle" ELSE "blocked"]

\* faulty variant: the on and off times are the whole period, not half of it
apply_state_full_period(en, rate, l) ==
    IF ~en \/ FLessEq(rate, Zero)
    THEN [led |-> LedOff(l), exc |-> "none", pc |-> "idle"]
    ELSE LET period == FDiv(One, rate)
         IN  IF period = ZeroDiv
             THEN [led |-> l, exc |-> "ZeroDivisionError", pc |-> "idle"]
             ELSE [led |-> LedBlink(l, period, period),
                   exc |-> "none",
                   pc |-> IF Background THEN "idle" ELSE "blocked"]

\* faulty variant: the disabled branch returns without calling led.off()
apply_state_no_off(en, rate, l) ==
    IF ~en \/ FLessEq(rate, Zero)
    THEN [led |-> l, exc |-> "none", pc |-> "idle"]
    ELSE LET period == FDiv(One, rate)
         IN  IF period = ZeroDiv
             THEN [led |-> l, exc |-> "ZeroDivisionError", pc |-> "idle"]
             ELSE [led |-> LedBlink(l, FDiv(period, Two), FDiv(period, Two)),
                   exc |-> "none",
                   pc |-> IF Background THEN "idle" ELSE "blocked"]

\* faulty variant: a call that finds the LED blinking stops it (start/stop toggle)
apply_state_toggle(en, rate, l) ==
    IF ~en \/ FLessEq(rate, Zero) \/ l.threads # <<>>
    THEN [led |-> LedOff(l), exc |-> "none", pc |-> "idle"]
    ELSE LET period == FDiv(One, rate)
         IN  IF period = ZeroDiv
             THEN [led |-> l, exc |-> "ZeroDivisionError", pc |-> "idle"]
             ELSE [led |-> LedBlink(l, FDiv(period, Two), FDiv(period, Two)),
                   exc |-> "none",
                   pc |-> IF Background THEN "idle" ELSE "blocked"]

\* LEDController.apply_state(state): the LED afterwards, the exception raised
\* to the caller ("none" when it returns), and whether the caller got back
apply_state(en, rate, l) ==
    IF ~en \/ FLessEq(rate, Zero)
    THEN [led |-> LedOff(l), exc |-> "none", pc |-> "idle"]
    ELSE LET period == FDiv(One, rate)
         IN  IF period = ZeroDiv
             THEN [led |-> l, exc |-> "ZeroDivisionError", pc |-> "idle"]
             ELSE LET on_time == FDiv(period, Two)
                      off_time == FDiv(period, Two)
                  IN  [led |-> LedBlink(l, on_time, off_time),
                       exc |-> "none",
                       pc |-> IF Background THEN "idle" ELSE "blocked"]

---------------------------------------------------------------------------
(* Event handlers *)

\* the try/except of on_rate_change: the parsed value, or the exception that
\* is not caught
ParseRate(raw) ==
    LET parsed == IF raw.t # "none" THEN PyFloat(raw)
                  ELSE [exc |-> "none", val |-> Zero]
    IN  IF parsed.exc \in {"TypeError", "ValueError"}
        THEN [exc |-> "none", val |-> Zero]
        ELSE parsed

\* faulty variant: a value above the upper bound is coerced to 0, not to the bound
ClampOutOfRangeToZero(value) ==
    IF FLess(value, Zero) \/ FLess(MaxRate, value) THEN Zero ELSE value

\* the two clamping ifs of on_rate_change
Clamp(value) ==
    LET v1 == IF FLess(value, Zero) THEN Zero ELSE value
    IN  IF FLess(MaxRate, v1) THEN MaxRate ELSE v1

\* what the LED is doing: steady at a level, or blinking with two durations
Waveform(l) ==
    IF l.threads = <<>>
    THEN [mode |-> IF l.value = 0 THEN "STEADY_OFF" ELSE "STEADY_ON",
          on |-> Zero, off |-> Zero]
    ELSE [mode |-> "BLINKING",
          on |-> l.threads[1].on_time, off |-> l.threads[1].off_time]

\* history of an apply_state call: its snapshot, whether the call before it
\* had the same snapshot, and the waveform it found
Snapshot(en, rate) ==
    [called |-> TRUE, n |-> 1 - applied.n, enabled |-> en, rate |-> rate,
     same |-> applied.called /\ applied.enabled = en /\ applied.rate = rate,
     before |-> Waveform(led)]

\* on_toggle_change(e) with e.value = raw
OnToggleChange(raw) ==
    /\ pc = "idle"
    /\ LET en == PyBool(raw)
           r == apply_state(en, flash_rate_hz, led)
       IN  /\ enabled' = en
           /\ led' = r.led
           /\ pc' = r.pc
           /\ raised' = r.exc
           /\ applied' = Snapshot(en, flash_rate_hz)
    /\ lastCall' = [op |-> "toggle", raw |-> raw, stored |-> TRUE]
    /\ UNCHANGED flash_rate_hz

\* on_rate_change(e) with e.value = raw
OnRateChange(raw) ==
    /\ pc = "idle"
    /\ LET parsed == ParseRate(raw)
       IN  IF parsed.exc # "none"
           THEN /\ raised' = parsed.exc
                /\ lastCall' = [op |-> "rate", raw |-> raw, stored |-> FALSE]
                /\ UNCHANGED <<enabled, flash_rate_hz, led, pc, applied>>
           ELSE LET value == Clamp(parsed.val)
                    r == apply_state(enabled, value, led)
                IN  /\ flash_rate_hz' = value
                    /\ led' = r.led
                    /\ pc' = r.pc
                    /\ raised' = r.exc
                    /\ applied' = Snapshot(enabled, value)
                    /\ lastCall' = [op |-> "rate", raw |-> raw, stored |-> TRUE]
                    /\ UNCHANGED enabled

\* one step of a blink thread: drive the pin high, wait on_time, drive it
\* low, wait off_time, and again
BlinkStep ==
    \E i \in 1 .. Len(led.threads) :
        LET t == led.threads[i]
            level == IF t.phase = "on" THEN 0 ELSE 1
            phase == IF t.phase = "on" THEN "off" ELSE "on"
        IN  /\ led' = [value |-> level,
                       threads |-> [led.threads EXCEPT ![i].phase = phase]]
            /\ UNCHANGED <<enabled, flash_rate_hz, pc, raised, lastCall, applied>>

---------------------------------------------------------------------------
(* The application: module-level objects, then events from the UI *)

NoCall == [op |-> "none", raw |-> Raw("none", Zero), stored |-> FALSE]
NoSnapshot ==
    [called |-> FALSE, n |-> 0, enabled |-> FALSE, rate |-> Zero,
     same |-> FALSE, before |-> Waveform(NewLED)]

\* state = DroidState(); led_controller = LEDController(gpio_pin=17)
Init ==
    /\ enabled = FALSE
    /\ flash_rate_hz = One
    /\ led = NewLED
    /\ pc = "idle"
    /\ raised = "none"
    /\ lastCall = NoCall
    /\ applied = NoSnapshot

ToggleEvent == \E raw \in RawValues : OnToggleChange(raw)
RateEvent == \E raw \in RawValues : OnRateChange(raw)

Next == ToggleEvent \/ RateEvent \/ BlinkStep

Spec == Init /\ [][Next]_vars

\* the blink thread is a running thread of the process: it keeps being scheduled
FairSpec == Spec /\ WF_vars(BlinkStep)

---------------------------------------------------------------------------
(* apply_state on its own: any DroidState, applied directly *)

\* DroidState(enabled, flash_rate_hz)
NewSnapshot ==
    /\ pc = "idle"
    /\ \E en \in BOOLEAN, rate \in FloatValues :
        /\ enabled' = en
        /\ flash_rate_hz' = rate
    /\ UNCHANGED <<led, pc, raised, lastCall, applied>>

\* led_controller.apply_state(state)
ApplyState ==
    /\ pc = "idle"
    /\ LET r == apply_state(enabled, flash_rate_hz, led)
       IN  /\ led' = r.led
           /\ pc' = r.pc
           /\ raised' = r.exc
    /\ applied' = Snapshot(enabled, flash_rate_hz)
    /\ UNCHANGED <<enabled, flash_rate_hz, lastCall>>

InitApply ==
    /\ enabled \in BOOLEAN
    /\ flash_rate_hz \in FloatValues
    /\ led = NewLED
    /\ pc = "idle"
    /\ raised = "none"
    /\ lastCall = NoCall
    /\ applied = NoSnapshot

NextApply == NewSnapshot \/ ApplyState \/ BlinkStep

SpecApply == InitApply /\ [][NextApply]_vars

---------------------------------------------------------------------------
(* Arithmetic the properties are stated with *)

IsNumber(v) == v.k \in {"fin", "inf"}

FMin(a, b) == IF FLess(b, a) THEN b ELSE a
FMax(a, b) == IF FLess(a, b) THEN b ELSE a

FMul(a, b) ==
    IF a.k = "nan" \/ b.k = "nan" THEN NaN
    ELSE IF a.k = "inf" \/ b.k = "inf"
         THEN (IF Sign(a) * Sign(b) = 0 THEN NaN ELSE Inf(Sign(a) * Sign(b)))
    ELSE Rat(a.n * b.n, a.d * b.d)

FAdd(a, b) ==
    IF a.k = "nan" \/ b.k = "nan" THEN NaN
    ELSE IF a.k = "inf" THEN (IF b.k = "inf" /\ b.n # a.n THEN NaN ELSE a)
    ELSE IF b.k = "inf" THEN b
    ELSE Rat(a.n * b.d + b.n * a.d, a.d * b.d)

\* the raw value is one float() turns into a number (finite or infinite)
ParsesToNumber(raw) ==
    /\ raw.t # "none"
    /\ PyFloat(raw).exc = "none"
    /\ IsNumber(PyFloat(raw).val)

\* the last apply_state call was made with enabled false or a rate <= 0
LastCallOff == ~applied.enabled \/ FLessEq(applied.rate, Zero)

\* the symmetric blink of frequency r: on = off = 1/(2r)
BlinkAt(r) ==
    [mode |-> "BLINKING",
     on |-> FDiv(One, FMul(Two, r)), off |-> FDiv(One, FMul(Two, r))]

SteadyOff == [mode |-> "STEADY_OFF", on |-> Zero, off |-> Zero]

---------------------------------------------------------------------------
(* Properties *)

\* C1: in every reachable state the stored flash_rate_hz is a number r with
\* 0 <= r <= 50.
C1_RateInRange ==
    /\ flash_rate_hz.k = "fin"
    /\ FLessEq(Zero, flash_rate_hz)
    /\ FLessEq(flash_rate_hz, MaxRate)

\* C2: after on_rate_change with a raw value that parses to a number n, the
\* stored rate is max(0, min(50, n)).
C2_ClampedNumber ==
    (lastCall.op = "rate" /\ ParsesToNumber(lastCall.raw))
        => flash_rate_hz = FMax(Zero, FMin(MaxRate, PyFloat(lastCall.raw).val))

\* a number above 50 was delivered and 50 is stored
C2_Witness ==
    /\ lastCall.op = "rate"
    /\ ParsesToNumber(lastCall.raw)
    /\ FLess(MaxRate, PyFloat(lastCall.raw).val)
    /\ flash_rate_hz = MaxRate

\* C3: after on_rate_change with a raw value that is absent or does not parse
\* to a real number, the stored rate is 0.
C3_NonNumericZero ==
    (lastCall.op = "rate" /\ ~ParsesToNumber(lastCall.raw))
        => flash_rate_hz = Zero

\* C4: every handler call returns without raising and has stored the new
\* value and called apply_state.
C4_HandlersTotal ==
    lastCall.op # "none"
        => (raised = "none" /\ lastCall.stored /\ pc = "idle")

\* C5: after apply_state with enabled false, or with a rate <= 0, the output
\* is steady off and no division by zero was raised.
C5_OffWhenDisabledOrNonPositive ==
    (applied.called /\ LastCallOff)
        => (Waveform(led) = SteadyOff /\ raised = "none")

\* apply_state was called on a blinking LED with enabled true and rate 0
C5_Witness ==
    /\ applied.called
    /\ applied.enabled
    /\ applied.rate = Zero
    /\ applied.before.mode = "BLINKING"
    /\ Waveform(led) = SteadyOff

\* C6: after apply_state with enabled true and a rate r > 0 the output blinks
\* with on = off = 1/(2r), so on + off = 1/r.
C6_SymmetricBlink ==
    (applied.called /\ applied.enabled /\ FLess(Zero, applied.rate))
        => /\ Waveform(led) = BlinkAt(applied.rate)
           /\ FAdd(Waveform(led).on, Waveform(led).off) = FDiv(One, applied.rate)

\* apply_state was called with enabled true and 1.5 Hz: on = off = 1/3 s
C6_Witness ==
    /\ applied.called
    /\ applied.enabled
    /\ applied.rate = Rat(3, 2)
    /\ Waveform(led).mode = "BLINKING"
    /\ Waveform(led).on = Rat(1, 3)
    /\ Waveform(led).off = Rat(1, 3)

\* C7: at most one blink thread drives the output and it has the durations of
\* the most recent apply_state call; after a call that commands OFF there is
\* no blink thread and the pin is low.
C7_Supersedes ==
    /\ Len(led.threads) <= 1
    /\ applied.called =>
        IF LastCallOff
        THEN led.threads = <<>> /\ led.value = 0 /\ ~ENABLED BlinkStep
        ELSE /\ Len(led.threads) = 1
             /\ Waveform(led) = BlinkAt(applied.rate)

\* a call commanding OFF found the LED blinking and left no blink thread
C7_WitnessOff ==
    /\ applied.called
    /\ LastCallOff
    /\ applied.before.mode = "BLINKING"
    /\ led.threads = <<>>

\* C8: a second apply_state call with the same snapshot leaves the output in
\* the mode and with the durations the first call left.
C8_Idempotent ==
    (applied.called /\ applied.same) => Waveform(led) = applied.before

\* the same blinking snapshot was applied twice in a row
C8_Witness ==
    /\ applied.called
    /\ applied.same
    /\ applied.enabled
    /\ FLess(Zero, applied.rate)
    /\ Waveform(led).mode = "BLINKING"

\* C9: the control thread is never left waiting for the blink, and a running
\* blink keeps alternating high and low until the next apply_state call.
C9_NonBlockingBlink ==
    /\ [](pc = "idle")
    /\ \A b \in {0, 1} : \A v \in {0, 1} :
        (led.threads # <<>> /\ led.value = v /\ applied.n = b)
            ~> (led.value = 1 - v \/ applied.n # b)

\* the handler that started a blink has returned and the blink thread has
\* gone through its on phase into its off phase
C9_Witness ==
    /\ pc = "idle"
    /\ lastCall.op # "none"
    /\ led.threads # <<>>
    /\ led.threads[1].phase = "off"
    /\ led.value = 0

\* C10: whenever no handler is in progress the output blinks with
\* on = off = 1/(2 * flash_rate_hz) exactly when enabled is true and
\* flash_rate_hz > 0, and is steady off otherwise.
C10_HardwareAgrees ==
    pc = "idle"
        => Waveform(led) = IF enabled /\ FLess(Zero, flash_rate_hz)
                           THEN BlinkAt(flash_rate_hz)
                           ELSE SteadyOff

====
